---- MODULE Spec2Model ----
(***************************************************************************)
(* FerrisFire: the proxy worker of src/proxy.rs (run_proxy_loop) with the  *)
(* humanization trackers of src/humanize.rs.                               *)
(*                                                                         *)
(* One loop iteration ("tick") of run_proxy_loop is three kinds of step:   *)
(*   pc = "top"     the while condition and physical.fetch_events()        *)
(*   pc = "events"  the head of `for event in events`: the batch has       *)
(*                  another event or the `for` loop ends                   *)
(*   pc = "body"    one pass of the body of the `for` loop                 *)
(*   pc = "timers"  burst pause, click release, new click, sleep           *)
(* pc = "open", "grab" and "clone" are the three steps before the loop,    *)
(* and pc = "done" is the worker returned.                                 *)
(*                                                                         *)
(* Durations are whole milliseconds.  An Instant is kept as its age, the   *)
(* value its elapsed() returns, saturated at the largest duration it is    *)
(* compared with: no comparison of the code tells two larger ages apart.   *)
(*                                                                         *)
(* Spec is a run of the worker, LiveSpec the run with the worker thread    *)
(* scheduled, and HumanizeSpec applies the functions of src/humanize.rs    *)
(* on their own.                                                           *)
(***************************************************************************)
EXTENDS Integers, Sequences, FiniteSets, TLC

VARIABLES
    config,               \* the Config snapshot moved into the worker
    stop,                 \* the shared AtomicBool stop signal
    pc,                   \* position of the worker in run_proxy_loop
    event,                \* the loop variable of `for event in events` (NoEvent outside)
    trigger_held,
    rmb_held,
    lmb_held,
    last_click_complete,  \* Instant, as an age
    next_interval,
    button_down_since,    \* Option<Instant>: None or an age
    current_travel,
    fatigue_tracker,      \* [click_count]
    burst_tracker,        \* [clicks_in_burst, in_pause]
    burst_pause_start,    \* Option<Instant>: None or an age
    current_burst_pause,
    burst_done_since,     \* history: None, or the age of the release that completed the
                          \* burst, while firing has gone on and no press has followed
    emitted,              \* frames handed to virtual_dev.emit by the latest step
    synth_log,            \* the last SynthWindow synthetic button values written
    left_written,         \* history, kept in the runs of DualTriggerSpec: value of the
                          \* last BTN_LEFT event handed to virtual_dev.emit, forwarded
                          \* or synthetic (None: none yet); Unrecorded in other runs
    released_since,       \* history, kept in the runs of RetriggerSpec: age of the last
                          \* synthetic release handed to virtual_dev.emit (None: none
                          \* yet); Unrecorded in other runs
    key_state,            \* last value processed for each trigger key (None: none yet)
    emit_result,          \* what virtual_dev.emit returned for each frame of emitted
    fetched,              \* what physical.fetch_events() returned in this iteration
    grabbed,              \* the physical device is grabbed by the worker
    ungrab,               \* what physical.ungrab() returned ("none": not called)
    result,               \* what run_proxy_loop returned ("none": still running)
    h_call,               \* the function of humanize.rs applied last
    h_args,               \* its arguments
    h_ret,                \* the value it returned
    app_config,           \* FerrisFireApp::config, the owner's Config
    running,              \* FerrisFireApp::running
    proxy_handle,         \* FerrisFireApp::proxy_handle is Some
    error_message,        \* FerrisFireApp::error_message ("none": None)
    owner_pc,             \* "ui": between two handlers, "join": in handle.join() of
                          \* stop_proxy, "exit_join": the same within on_exit,
                          \* "exited": on_exit has returned
    spawned,              \* history: workers spawned so far, counted up to MaxSpawned
    recording,            \* FerrisFireApp::recording
    recording_cancel,     \* the AtomicBool the recording thread shares with the owner
    rec_pc,               \* position of the recording thread in record_button_press
    rec_elapsed,          \* start.elapsed() of the recording thread
    rec_batch,            \* the events its latest fetch_events() returned
    rec_result            \* what it returned: None or the code recorded

\* The variables of the humanize.rs functions applied on their own
hvars == <<h_call, h_args, h_ret>>

\* The variables of a run of the worker
rvars == <<config, stop, pc, event, trigger_held, rmb_held, lmb_held,
           last_click_complete, next_interval, button_down_since, current_travel,
           fatigue_tracker, burst_tracker, burst_pause_start, current_burst_pause,
           burst_done_since, emitted, synth_log, left_written, released_since, key_state,
           emit_result, fetched, grabbed, ungrab, result>>

\* The variables of the owner (src/gui.rs) and of its recording thread
ovars == <<app_config, running, proxy_handle, error_message, owner_pc, spawned,
           recording, recording_cancel, rec_pc, rec_elapsed, rec_batch, rec_result>>

vars == <<rvars, hvars, ovars>>

----------------------------------------------------------------------------
(* Bounds of the model *)

MaxKeyValue == 2       \* KEY values the device delivers: 0..MaxKeyValue
MaxSleep == 1          \* milliseconds one tick may take, at most
SynthWindow == 2       \* synthetic button values remembered in synth_log
CountWrap == 3         \* stands for 2^64, where click_count wraps
ClickDelaySpan == 1    \* config.click_delay_max_ms - config.click_delay_min_ms
TravelMin == 1         \* config.travel_time_min_ms
TravelSpan == 1        \* config.travel_time_max_ms - config.travel_time_min_ms
BurstCount == 2        \* config.burst_count
BurstPauseMs == 3      \* config.burst_pause_ms
U64Bits == 5           \* stands for 64, the width of u64
F64Precision == 4      \* stands for 53, the significant bits of f64
MaxClickCount == 250   \* click counts get_multiplier is applied to: 0..MaxClickCount
MaxPercent == 50       \* max slowdown percents it is applied with: 0..MaxPercent
MaxBurstSize == 4      \* burst sizes click() is applied with: 0..MaxBurstSize
MaxBurstCalls == 6     \* click() calls made before the one observed: 0..MaxBurstCalls
RecordTimeout == 5     \* stands for the 10 s the owner lets a recording take
RecordPoll == 2        \* stands for the 10 ms the recording thread sleeps
MaxRecBatch == 2       \* events one fetch_events() of the recording thread returns
MaxSpawned == 2        \* workers counted in spawned
ValidateSpan == 2      \* validate() is applied to click delays within ValidateSpan of
                       \* ClickDelayFloor and to travel times 0..ValidateSpan

\* The least click_delay_min_ms Config::validate accepts
ClickDelayFloor == 10

default_fatigue_max_percent == 30

----------------------------------------------------------------------------
(* Events *)

None == -1

BTN_LEFT == 272
BTN_RIGHT == 273
BTN_SIDE == 275
REL_X == 0
SYN_REPORT == 0

KeyEv(code, value) == [type |-> "KEY", code |-> code, value |-> value]
RelEv == [type |-> "REL", code |-> REL_X, value |-> 1]
SynEv == [type |-> "SYN", code |-> SYN_REPORT, value |-> 0]

\* The loop variable outside the loop body
NoEvent == [type |-> "NONE", code |-> 0, value |-> 0]

Min(a, b) == IF a <= b THEN a ELSE b
Max(a, b) == IF a >= b THEN a ELSE b

----------------------------------------------------------------------------
(* Configuration (src/config.rs) *)

\* TriggerButton::Mouse4.to_key_code()
Mouse4KeyCode == BTN_SIDE

\* A device path the user has selected
DevicePath == "/dev/input/event0"

\* The configurations a run is started with.  All pass Config::validate.
\* A custom trigger code is drawn in standard mode, where it is read, with
\* fatigue and burst off.
AllConfigs ==
    { [ device_path         |-> DevicePath,
        custom_trigger_code |-> c,
        click_delay_min_ms  |-> ClickDelayFloor,
        click_delay_max_ms  |-> ClickDelayFloor + ClickDelaySpan,
        travel_time_min_ms  |-> TravelMin,
        travel_time_max_ms  |-> TravelMin + TravelSpan,
        use_gaussian        |-> g,
        simulate_fatigue    |-> f,
        fatigue_max_percent |-> default_fatigue_max_percent,
        travel_jitter       |-> j,
        burst_mode          |-> b,
        burst_count         |-> BurstCount,
        burst_pause_ms      |-> BurstPauseMs,
        smart_ads_trigger   |-> a ] :
      c \in {None, BTN_LEFT}, g \in {FALSE}, f \in BOOLEAN, j \in {FALSE},
      b \in BOOLEAN, a \in BOOLEAN }

Configs ==
    { c \in AllConfigs :
        c.custom_trigger_code # None =>
            ~c.smart_ads_trigger /\ ~c.simulate_fatigue /\ ~c.burst_mode }

\* validate() with the check of the floor before the checks of the bounds
validate_FloorFirst(cfg) ==
    IF cfg.device_path = "" THEN "No device selected"
    ELSE IF cfg.click_delay_min_ms < ClickDelayFloor
    THEN "Min delay must be at least 10ms"
    ELSE IF cfg.click_delay_min_ms > cfg.click_delay_max_ms
    THEN "Min delay cannot be greater than max delay"
    ELSE IF cfg.travel_time_min_ms > cfg.travel_time_max_ms
    THEN "Min travel time cannot be greater than max travel time"
    ELSE "Ok"

\* Config::validate: "Ok" or the message of the Err
validate(cfg) ==
    IF cfg.device_path = "" THEN "No device selected"
    ELSE IF cfg.click_delay_min_ms > cfg.click_delay_max_ms
    THEN "Min delay cannot be greater than max delay"
    ELSE IF cfg.travel_time_min_ms > cfg.travel_time_max_ms
    THEN "Min travel time cannot be greater than max travel time"
    ELSE IF cfg.click_delay_min_ms < ClickDelayFloor
    THEN "Min delay must be at least 10ms"
    ELSE "Ok"

effective_trigger_code(cfg) ==
    IF cfg.custom_trigger_code # None THEN cfg.custom_trigger_code ELSE Mouse4KeyCode

----------------------------------------------------------------------------
(* Humanization (src/humanize.rs) *)

\* random_delay: the values the uniform draw can return
random_delay(min_ms, max_ms) ==
    IF min_ms >= max_ms THEN {min_ms} ELSE min_ms..max_ms

RECURSIVE Pow2(_)
Pow2(k) == IF k = 0 THEN 1 ELSE 2 * Pow2(k - 1)

RECURSIVE BitLen(_)
BitLen(n) == IF n = 0 THEN 0 ELSE 1 + BitLen(n \div 2)

\* The values of u64
U64 == 0..(Pow2(U64Bits) - 1)

\* n as f64, for an unsigned integer n: the nearest value with F64Precision
\* significant bits, a tie going to the even one
as_f64(n) ==
    IF n < Pow2(F64Precision) THEN n
    ELSE LET q == Pow2(BitLen(n) - F64Precision)
             lo == (n \div q) * q
             hi == lo + q
         IN  IF 2 * (n - lo) < q THEN lo
             ELSE IF 2 * (n - lo) > q THEN hi
             ELSE IF (lo \div q) % 2 = 0 THEN lo ELSE hi

\* The whole numbers f64 represents, up to 2^U64Bits
F64Ints == { n \in 0..Pow2(U64Bits) : as_f64(n) = n }

\* v as u64, for a non-negative f64 v: truncated, saturating at u64::MAX
as_u64(v) == Min(v, Pow2(U64Bits) - 1)

\* The thread panics ("attempt to add with overflow", overflow checks on)
Panicked == -2

\* gaussian_delay: the values the clamped normal draw can return.  The draw
\* is any f64; it is clamped between min_ms as f64 and max_ms as f64 and cast
\* to u64 (a value between two whole numbers is cast to the lower one, which
\* the clamped range holds too).  min_ms + max_ms is a u64 addition: when it
\* overflows a build with overflow checks panics and one without wraps, which
\* moves the mean only.
gaussian_delay(min_ms, max_ms) ==
    IF min_ms >= max_ms THEN {min_ms}
    ELSE { as_u64(v) : v \in { x \in F64Ints : as_f64(min_ms) <= x /\ x <= as_f64(max_ms) } }
         \cup (IF min_ms + max_ms >= Pow2(U64Bits) THEN {Panicked} ELSE {})

\* (base.as_millis() as f64 * r) as u64 for r in [0.0, 0.5): every whole
\* number below half of base as f64
JitterAmounts(base) == IF base = 0 THEN {0} ELSE 0..((as_f64(base) - 1) \div 2)

random_travel_time(min_ms, max_ms, jitter) ==
    IF jitter
    THEN UNION { {base} \cup { base + k : k \in JitterAmounts(base) } :
                 base \in random_delay(min_ms, max_ms) }
    ELSE random_delay(min_ms, max_ms)

gaussian_travel_time(min_ms, max_ms, jitter) ==
    IF jitter
    THEN UNION { {base} \cup { base + k : k \in JitterAmounts(base) } :
                 base \in gaussian_delay(min_ms, max_ms) }
    ELSE gaussian_delay(min_ms, max_ms)

random_click_interval(min_ms, max_ms) == random_delay(min_ms, max_ms)

gaussian_click_interval(min_ms, max_ms) == gaussian_delay(min_ms, max_ms)

get_click_interval(cfg) ==
    IF cfg.use_gaussian
    THEN gaussian_click_interval(cfg.click_delay_min_ms, cfg.click_delay_max_ms)
    ELSE random_click_interval(cfg.click_delay_min_ms, cfg.click_delay_max_ms)

get_travel_time(cfg) ==
    IF cfg.use_gaussian
    THEN gaussian_travel_time(cfg.travel_time_min_ms, cfg.travel_time_max_ms, cfg.travel_jitter)
    ELSE random_travel_time(cfg.travel_time_min_ms, cfg.travel_time_max_ms, cfg.travel_jitter)

cycle_length == 100

FatigueTracker_new == [click_count |-> 0]

\* get_multiplier with a ramp that never ends
FatigueSlowdown_NoPlateau(ft, max_percent) ==
    (max_percent * 100 * (ft.click_count % cycle_length) * 2) \div cycle_length

\* get_multiplier with a recovery measured over the last quarter of the cycle
FatigueSlowdown_QuarterRecovery(ft, max_percent) ==
    LET position == ft.click_count % cycle_length
    IN  IF 2 * position < cycle_length
        THEN (max_percent * 100 * position * 2) \div cycle_length
        ELSE IF 10 * position < 8 * cycle_length
        THEN max_percent * 100
        ELSE (max_percent * 100 * (cycle_length - position) * 4) \div cycle_length

\* get_multiplier, in hundredths of a percent of slowdown: the multiplier is
\* 1 + FatigueSlowdown / 10000.  With cycle_length 100 every value of the
\* code's formula is a whole number of these units.
FatigueSlowdown(ft, max_percent) ==
    LET position == ft.click_count % cycle_length
    IN  IF 2 * position < cycle_length
        THEN (max_percent * 100 * position * 2) \div cycle_length
        ELSE IF 10 * position < 8 * cycle_length
        THEN max_percent * 100
        ELSE (max_percent * 100 * (cycle_length - position) * 5) \div cycle_length

\* FatigueTracker::apply: (duration.as_millis() as f64 * multiplier) as u64
FatigueApply(ft, max_percent, ms) ==
    as_u64((as_f64(ms) * (10000 + FatigueSlowdown(ft, max_percent))) \div 10000)

\* FatigueTracker::click: click_count.wrapping_add(1)
FatigueClick(ft) == [ft EXCEPT !.click_count = (@ + 1) % CountWrap]

\* reset that leaves the count
FatigueReset_Keep(ft) == ft

FatigueReset(ft) == [ft EXCEPT !.click_count = 0]

BurstTracker_new == [clicks_in_burst |-> 0, in_pause |-> FALSE]

should_pause(bt) == bt.in_pause

\* pause_duration: (pause_ms * v) as u64 for v in [0.8, 1.2)
pause_duration(pause_ms) ==
    { d \in 0..(2 * pause_ms) : 10 * d + 10 > 8 * pause_ms /\ 10 * d < 12 * pause_ms }
    \cup (IF pause_ms = 0 THEN {0} ELSE {})

\* A click() that counts while the tracker is in pause too
BurstClick_CountsInPause(bt, burst_size) ==
    [clicks_in_burst |-> bt.clicks_in_burst + 1,
     in_pause |-> (bt.in_pause \/ bt.clicks_in_burst + 1 >= burst_size)]

\* BurstTracker::click: the tracker after the call
BurstClick(bt, burst_size) ==
    IF bt.in_pause THEN bt
    ELSE [clicks_in_burst |-> bt.clicks_in_burst + 1,
          in_pause |-> (bt.clicks_in_burst + 1 >= burst_size)]

\* BurstTracker::click: the value the call returns
BurstClickReturns(bt, burst_size) ==
    bt.in_pause \/ bt.clicks_in_burst + 1 >= burst_size

\* end_pause that leaves the counter
BurstEndPause_KeepsCount(bt) == [bt EXCEPT !.in_pause = FALSE]

\* BurstTracker::end_pause
BurstEndPause(bt) == [clicks_in_burst |-> 0, in_pause |-> FALSE]

BurstReset(bt) == [clicks_in_burst |-> 0, in_pause |-> FALSE]

\* The tracker after calls click() calls made on bt
RECURSIVE BurstClicks(_, _, _)
BurstClicks(bt, burst_size, calls) ==
    IF calls = 0 THEN bt
    ELSE BurstClick(BurstClicks(bt, burst_size, calls - 1), burst_size)

\* The trackers click() and end_pause() are applied to
BurstTrackers == [clicks_in_burst : 0..MaxBurstSize, in_pause : BOOLEAN]

----------------------------------------------------------------------------
(* The worker's locals (src/proxy.rs, run_proxy_loop) *)

\* The largest value next_interval, current_travel and current_burst_pause
\* can take: an age is saturated at the largest duration it is compared with
MaxInterval ==
    LET m == Max(config.click_delay_min_ms, config.click_delay_max_ms)
    IN  IF config.simulate_fatigue
        THEN (m * (100 + config.fatigue_max_percent)) \div 100
        ELSE m

MaxTravel ==
    LET m == Max(config.travel_time_min_ms, config.travel_time_max_ms)
    IN  IF config.travel_jitter THEN m + m \div 2 ELSE m

MaxPause == (12 * config.burst_pause_ms) \div 10

\* Instant::now()
Now == 0

\* An Instant d milliseconds later
Older(instant, d, cap) == IF instant = None THEN None ELSE Min(instant + d, cap)

\* The locals of run_proxy_loop, with the frames the current step has written
Locals ==
    [ trigger_held        |-> trigger_held,
      rmb_held            |-> rmb_held,
      lmb_held            |-> lmb_held,
      last_click_complete |-> last_click_complete,
      next_interval       |-> next_interval,
      button_down_since   |-> button_down_since,
      current_travel      |-> current_travel,
      fatigue_tracker     |-> fatigue_tracker,
      burst_tracker       |-> burst_tracker,
      burst_pause_start   |-> burst_pause_start,
      current_burst_pause |-> current_burst_pause,
      burst_done_since    |-> burst_done_since,
      synth_log           |-> synth_log,
      left_written        |-> left_written,
      released_since      |-> released_since,
      out                 |-> <<>> ]

Store(s) ==
    /\ trigger_held' = s.trigger_held
    /\ rmb_held' = s.rmb_held
    /\ lmb_held' = s.lmb_held
    /\ last_click_complete' = s.last_click_complete
    /\ next_interval' = s.next_interval
    /\ button_down_since' = s.button_down_since
    /\ current_travel' = s.current_travel
    /\ fatigue_tracker' = s.fatigue_tracker
    /\ burst_tracker' = s.burst_tracker
    /\ burst_pause_start' = s.burst_pause_start
    /\ current_burst_pause' = s.current_burst_pause
    /\ burst_done_since' = s.burst_done_since
    /\ synth_log' = s.synth_log
    /\ left_written' = s.left_written
    /\ released_since' = s.released_since
    /\ emitted' = s.out
    /\ emit_result' \in [1..Len(s.out) -> {"Ok", "Err"}]

\* The value of a history variable in a run that keeps no record of it: one
\* that is no key value, no age and not None
Unrecorded == None - 1

\* virtual_dev.emit(frame): the frame is handed to the device; what emit
\* returns is drawn in Store, and an Err is logged and changes nothing else
Emit(s, frame) ==
    [s EXCEPT !.out = Append(@, frame),
              !.left_written = IF /\ @ # Unrecorded
                                  /\ frame[1].type = "KEY"
                                  /\ frame[1].code = BTN_LEFT
                               THEN frame[1].value
                               ELSE @]

Remember(log, value) ==
    LET all == Append(log, value)
    IN  IF Len(all) > SynthWindow THEN Tail(all) ELSE all

emit_button_down(s) ==
    [Emit(s, <<KeyEv(BTN_LEFT, 1), SynEv>>) EXCEPT !.synth_log = Remember(@, 1)]

emit_button_up(s) ==
    [Emit(s, <<KeyEv(BTN_LEFT, 0), SynEv>>) EXCEPT
        !.synth_log = Remember(@, 0),
        !.released_since = IF @ = Unrecorded THEN Unrecorded ELSE Now]

\* event.value() == 1
IsPress(value) == value = 1

\* ReleaseAndReset that forgets the click without calling emit_button_up
ReleaseAndReset_NoEmit(s) ==
    [s EXCEPT !.button_down_since = None,
              !.fatigue_tracker = FatigueReset(@),
              !.burst_tracker = BurstReset(@),
              !.burst_pause_start = None,
              !.burst_done_since = None]

\* "release any held click and reset trackers"
ReleaseAndReset(s) ==
    LET r == IF s.button_down_since # None
             THEN [emit_button_up(s) EXCEPT !.button_down_since = None]
             ELSE s
    IN  [r EXCEPT !.fatigue_tracker = FatigueReset(@),
                  !.burst_tracker = BurstReset(@),
                  !.burst_pause_start = None,
                  !.burst_done_since = None]

\* HandleRmb without the cleanup on release
HandleRmb_NoCleanup(s, ev) ==
    Emit([s EXCEPT !.rmb_held = IsPress(ev.value)], <<ev>>)

\* HandleRmb without the `continue` after the pass-through: the event
\* reaches the emit at the end of the loop body too
HandleRmb_NoContinue(s, ev) ==
    LET was_held == s.rmb_held
        h == [s EXCEPT !.rmb_held = IsPress(ev.value)]
        c == IF was_held /\ ~h.rmb_held /\ h.lmb_held THEN ReleaseAndReset(h) ELSE h
    IN  Emit(Emit(c, <<ev>>), <<ev>>)

\* Smart ADS mode, BTN_RIGHT
HandleRmb(s, ev) ==
    LET was_held == s.rmb_held
        h == [s EXCEPT !.rmb_held = IsPress(ev.value)]
        c == IF was_held /\ ~h.rmb_held /\ h.lmb_held THEN ReleaseAndReset(h) ELSE h
    IN  Emit(c, <<ev>>)

\* HandleLmb that never passes BTN_LEFT through
HandleLmb_AlwaysSuppress(s, ev) ==
    LET was_held == s.lmb_held
        h == [s EXCEPT !.lmb_held = IsPress(ev.value)]
    IN  IF h.rmb_held /\ was_held /\ ~h.lmb_held THEN ReleaseAndReset(h) ELSE h

\* Smart ADS mode, BTN_LEFT
HandleLmb(s, ev) ==
    LET was_held == s.lmb_held
        h == [s EXCEPT !.lmb_held = IsPress(ev.value)]
    IN  IF h.rmb_held
        THEN IF was_held /\ ~h.lmb_held THEN ReleaseAndReset(h) ELSE h
        ELSE Emit(h, <<ev>>)

\* HandleTrigger without its `continue`: the trigger event reaches the emit
\* at the end of the loop body
HandleTrigger_NoContinue(s, ev) ==
    LET was_held == s.trigger_held
        h == [s EXCEPT !.trigger_held = IsPress(ev.value)]
    IN  Emit(IF was_held /\ ~h.trigger_held THEN ReleaseAndReset(h) ELSE h, <<ev>>)

\* Standard trigger mode, the trigger key
HandleTrigger(s, ev) ==
    LET was_held == s.trigger_held
        h == [s EXCEPT !.trigger_held = IsPress(ev.value)]
    IN  IF was_held /\ ~h.trigger_held THEN ReleaseAndReset(h) ELSE h

\* The body of `for event in events`
ProcessEvent(s, ev) ==
    IF ev.type = "KEY" /\ config.smart_ads_trigger /\ ev.code = BTN_RIGHT
    THEN HandleRmb(s, ev)
    ELSE IF ev.type = "KEY" /\ config.smart_ads_trigger /\ ev.code = BTN_LEFT
    THEN HandleLmb(s, ev)
    ELSE IF ev.type = "KEY" /\ ~config.smart_ads_trigger
            /\ ev.code = effective_trigger_code(config)
    THEN HandleTrigger(s, ev)
    ELSE Emit(s, <<ev>>)

\* rapid_fire_active with || for &&
rapid_fire_active_Either(s) ==
    IF config.smart_ads_trigger THEN s.rmb_held \/ s.lmb_held ELSE s.trigger_held

rapid_fire_active(s) ==
    IF config.smart_ads_trigger THEN s.rmb_held /\ s.lmb_held ELSE s.trigger_held

\* "Handle burst pause": TRUE when the tick skips the click logic
InBurstPause(s) ==
    /\ config.burst_mode
    /\ s.burst_pause_start # None
    /\ s.burst_pause_start < s.current_burst_pause

\* EndBurstPause without burst_tracker.end_pause()
EndBurstPause_NoEndPause(s) ==
    IF config.burst_mode /\ s.burst_pause_start # None
       /\ s.burst_pause_start >= s.current_burst_pause
    THEN [s EXCEPT !.burst_pause_start = None,
                   !.last_click_complete = Now]
    ELSE s

\* EndBurstPause without `last_click_complete = Instant::now()`
EndBurstPause_KeepsLastClick(s) ==
    IF config.burst_mode /\ s.burst_pause_start # None
       /\ s.burst_pause_start >= s.current_burst_pause
    THEN [s EXCEPT !.burst_tracker = BurstEndPause(@),
                   !.burst_pause_start = None]
    ELSE s

EndBurstPause(s) ==
    IF config.burst_mode /\ s.burst_pause_start # None
       /\ s.burst_pause_start >= s.current_burst_pause
    THEN [s EXCEPT !.burst_tracker = BurstEndPause(@),
                   !.burst_pause_start = None,
                   !.last_click_complete = Now]
    ELSE s

\* ClickRelease that compares the time pressed with the smallest travel time
\* of the configuration instead of the one sampled for the click
ClickRelease_MinTravel(s, interval, pause) ==
    IF s.button_down_since # None /\ s.button_down_since >= config.travel_time_min_ms
    THEN LET u == [emit_button_up(s) EXCEPT !.button_down_since = None,
                                            !.last_click_complete = Now]
             f == IF config.simulate_fatigue
                  THEN [u EXCEPT !.fatigue_tracker = FatigueClick(@)]
                  ELSE u
             b == IF config.burst_mode
                  THEN IF BurstClickReturns(f.burst_tracker, config.burst_count)
                       THEN [f EXCEPT !.burst_tracker = BurstClick(@, config.burst_count),
                                      !.burst_pause_start = Now,
                                      !.current_burst_pause = pause,
                                      !.burst_done_since = Now]
                       ELSE [f EXCEPT !.burst_tracker = BurstClick(@, config.burst_count)]
                  ELSE f
         IN  [b EXCEPT !.next_interval =
                 IF config.simulate_fatigue
                 THEN FatigueApply(b.fatigue_tracker, config.fatigue_max_percent, interval)
                 ELSE interval]
    ELSE s

\* ClickRelease that calls fatigue_tracker.click() whether or not fatigue is
\* simulated
ClickRelease_AlwaysCounts(s, interval, pause) ==
    IF s.button_down_since # None /\ s.button_down_since >= s.current_travel
    THEN LET u == [emit_button_up(s) EXCEPT !.button_down_since = None,
                                            !.last_click_complete = Now]
             f == [u EXCEPT !.fatigue_tracker = FatigueClick(@)]
             b == IF config.burst_mode
                  THEN IF BurstClickReturns(f.burst_tracker, config.burst_count)
                       THEN [f EXCEPT !.burst_tracker = BurstClick(@, config.burst_count),
                                      !.burst_pause_start = Now,
                                      !.current_burst_pause = pause,
                                      !.burst_done_since = Now]
                       ELSE [f EXCEPT !.burst_tracker = BurstClick(@, config.burst_count)]
                  ELSE f
         IN  [b EXCEPT !.next_interval =
                 IF config.simulate_fatigue
                 THEN FatigueApply(b.fatigue_tracker, config.fatigue_max_percent, interval)
                 ELSE interval]
    ELSE s

\* "Handle click release"; interval and pause are the values the samplers return
ClickRelease(s, interval, pause) ==
    IF s.button_down_since # None /\ s.button_down_since >= s.current_travel
    THEN LET u == [emit_button_up(s) EXCEPT !.button_down_since = None,
                                            !.last_click_complete = Now]
             f == IF config.simulate_fatigue
                  THEN [u EXCEPT !.fatigue_tracker = FatigueClick(@)]
                  ELSE u
             b == IF config.burst_mode
                  THEN IF BurstClickReturns(f.burst_tracker, config.burst_count)
                       THEN [f EXCEPT !.burst_tracker = BurstClick(@, config.burst_count),
                                      !.burst_pause_start = Now,
                                      !.current_burst_pause = pause,
                                      !.burst_done_since = Now]
                       ELSE [f EXCEPT !.burst_tracker = BurstClick(@, config.burst_count)]
                  ELSE f
         IN  [b EXCEPT !.next_interval =
                 IF config.simulate_fatigue
                 THEN FatigueApply(b.fatigue_tracker, config.fatigue_max_percent, interval)
                 ELSE interval]
    ELSE s

\* should_click without the check of the interval
should_click_NoIntervalCheck(s) ==
    /\ rapid_fire_active(s)
    /\ s.button_down_since = None
    /\ (~config.burst_mode \/ ~should_pause(s.burst_tracker))

\* should_click without button_down_since.is_none()
should_click_NoInFlightCheck(s) ==
    /\ rapid_fire_active(s)
    /\ s.last_click_complete >= s.next_interval
    /\ (~config.burst_mode \/ ~should_pause(s.burst_tracker))

\* should_click without rapid_fire_active
should_click_NoFiringCheck(s) ==
    /\ s.button_down_since = None
    /\ s.last_click_complete >= s.next_interval
    /\ (~config.burst_mode \/ ~should_pause(s.burst_tracker))

should_click(s) ==
    /\ rapid_fire_active(s)
    /\ s.button_down_since = None
    /\ s.last_click_complete >= s.next_interval
    /\ (~config.burst_mode \/ ~should_pause(s.burst_tracker))

\* "Start new click if trigger held and ready"
ClickStart(s, travel) ==
    IF should_click(s)
    THEN [emit_button_down(s) EXCEPT !.button_down_since = Now,
                                     !.current_travel = travel,
                                     !.burst_done_since = None]
    ELSE s

\* thread::sleep: d milliseconds pass
Sleep(s, d) ==
    [s EXCEPT !.last_click_complete = Older(@, d, MaxInterval),
              !.button_down_since = Older(@, d, MaxTravel),
              !.burst_pause_start = Older(@, d, MaxPause),
              !.burst_done_since = Older(@, d, MaxPause + MaxInterval),
              !.released_since = IF @ = Unrecorded THEN Unrecorded
                                 ELSE Older(@, d, config.click_delay_min_ms)]

\* The loop body after the events are drained, for each value the samplers
\* can return, when d milliseconds pass until the sleep ends
TimersSleeping(s, d) ==
    IF InBurstPause(s)
    THEN { Sleep(s, d) }
    ELSE LET p == EndBurstPause(s)
             released == { ClickRelease(p, interval, pause) :
                             interval \in get_click_interval(config),
                             pause \in pause_duration(config.burst_pause_ms) }
             clicked == UNION { { ClickStart(r, travel) :
                                    travel \in get_travel_time(config) } :
                                r \in released }
         IN  { Sleep(c, d) : c \in clicked }

\* The loop body after the events are drained
Timers(s) == UNION { TimersSleeping(s, d) : d \in 0..MaxSleep }

\* An exit that leaves the button as it is
Cleanup_Never(s) == s

\* "Clean up: release button if held"
Cleanup(s) == IF s.button_down_since # None THEN emit_button_up(s) ELSE s

----------------------------------------------------------------------------
(* The physical device *)

TriggerCodesOf(cfg) ==
    IF cfg.smart_ads_trigger THEN {BTN_RIGHT, BTN_LEFT}
    ELSE {effective_trigger_code(cfg)}

TriggerCodes == TriggerCodesOf(config)

\* A key of the device that is no trigger in this run
OtherCode == IF config.smart_ads_trigger THEN BTN_SIDE ELSE BTN_RIGHT

PhysicalEvents ==
    { KeyEv(c, v) : c \in TriggerCodes, v \in 0..MaxKeyValue }
    \cup { KeyEv(OtherCode, 1), RelEv }

----------------------------------------------------------------------------
(* Specification *)

\* Nothing of humanize.rs is applied on its own during a run
HumanizeIdle == h_call = "none" /\ h_args = <<>> /\ h_ret = 0

\* No device is open and no local of run_proxy_loop is initialized
NoLocals ==
    /\ event = NoEvent
    /\ trigger_held = FALSE
    /\ rmb_held = FALSE
    /\ lmb_held = FALSE
    /\ last_click_complete = Now
    /\ next_interval = 0
    /\ button_down_since = None
    /\ current_travel = 0
    /\ fatigue_tracker = FatigueTracker_new
    /\ burst_tracker = BurstTracker_new
    /\ burst_pause_start = None
    /\ current_burst_pause = 0
    /\ burst_done_since = None
    /\ emitted = <<>>
    /\ emit_result = <<>>
    /\ synth_log = <<>>
    /\ key_state = [c \in TriggerCodes |-> None]
    /\ fetched = "none"
    /\ grabbed = FALSE
    /\ ungrab = "none"
    /\ result = "none"

\* run_proxy_loop is entered: no device is open and no local is initialized
RunInit ==
    /\ config \in Configs
    /\ stop = FALSE
    /\ pc = "open"
    /\ NoLocals
    /\ left_written = Unrecorded
    /\ released_since = Unrecorded

\* The owner as start_proxy leaves it: the run is the one it has started,
\* and no recording is on
OwnerStarted ==
    /\ app_config = config
    /\ running = TRUE
    /\ proxy_handle = TRUE
    /\ error_message = "none"
    /\ owner_pc = "ui"
    /\ spawned = 1
    /\ recording = FALSE
    /\ recording_cancel = FALSE
    /\ rec_pc = "none"
    /\ rec_elapsed = 0
    /\ rec_batch = <<>>
    /\ rec_result = None

Init == RunInit /\ HumanizeIdle /\ OwnerStarted

\* A failed step that goes on into the loop
ReturnErr_Ignored(message) == pc' = "top" /\ result' = result

\* map_err(|e| format!(message, e))?: the run returns Err(message)
ReturnErr(message) == pc' = "done" /\ result' = message

\* open_device(&config.device_path)
OpenDevice ==
    /\ pc = "open"
    /\ \/ pc' = "grab" /\ result' = result
       \/ ReturnErr("Failed to open device")
    /\ Store(Locals)
    /\ UNCHANGED <<config, stop, event, key_state, fetched, grabbed, ungrab, hvars, ovars>>

\* physical.grab()
GrabDevice ==
    /\ pc = "grab"
    /\ \/ pc' = "clone" /\ result' = result /\ grabbed' = TRUE
       \/ ReturnErr("Failed to grab device") /\ grabbed' = grabbed
    /\ Store(Locals)
    /\ UNCHANGED <<config, stop, event, key_state, fetched, ungrab, hvars, ovars>>

\* The locals as the statements before the loop set them
StartLocals(interval, travel) ==
    [ trigger_held        |-> FALSE,
      rmb_held            |-> FALSE,
      lmb_held            |-> FALSE,
      last_click_complete |-> Now,
      next_interval       |-> interval,
      button_down_since   |-> None,
      current_travel      |-> travel,
      fatigue_tracker     |-> FatigueTracker_new,
      burst_tracker       |-> BurstTracker_new,
      burst_pause_start   |-> None,
      current_burst_pause |-> 0,
      burst_done_since    |-> None,
      synth_log           |-> <<>>,
      left_written        |-> IF left_written = Unrecorded THEN Unrecorded ELSE None,
      released_since      |-> IF released_since = Unrecorded THEN Unrecorded ELSE None,
      out                 |-> <<>> ]

\* create_virtual_clone(&physical), then the locals; on Err the run returns
\* with the device grabbed and physical.ungrab() not called
CreateVirtualClone ==
    /\ pc = "clone"
    /\ \/ /\ pc' = "top"
          /\ result' = result
          /\ \E interval \in get_click_interval(config), travel \in get_travel_time(config) :
                Store(StartLocals(interval, travel))
       \/ /\ ReturnErr("Failed to create virtual device")
          /\ Store(Locals)
    /\ UNCHANGED <<config, stop, event, key_state, fetched, grabbed, ungrab, hvars, ovars>>

\* A loop that never reads the stop signal
LoopCondition_Ignored == TRUE

\* while !stop.load(Ordering::Relaxed)
LoopCondition == ~stop

\* physical.fetch_events() returns Ok(events); the batch may be empty
FetchEvents ==
    /\ pc = "top"
    /\ LoopCondition
    /\ pc' = "events"
    /\ fetched' = "Ok"
    /\ event' = NoEvent
    /\ Store(Locals)
    /\ UNCHANGED <<config, stop, key_state, grabbed, ungrab, result, hvars, ovars>>

\* A would-block that starts the next iteration at once
AfterWouldBlock_Continue == "top"

\* Err(e) if e.kind() == WouldBlock => {}: on to the rest of the loop body
AfterWouldBlock == "timers"

\* physical.fetch_events() returns Err(WouldBlock)
WouldBlock ==
    /\ pc = "top"
    /\ LoopCondition
    /\ pc' = AfterWouldBlock
    /\ fetched' = "WouldBlock"
    /\ event' = NoEvent
    /\ Store(Locals)
    /\ UNCHANGED <<config, stop, key_state, grabbed, ungrab, result, hvars, ovars>>

\* An Err from emit that breaks out of the loop body
OnEmitResult_Break(results, next) ==
    IF \E i \in DOMAIN results : results[i] = "Err" THEN "done" ELSE next

\* if let Err(e) = virtual_dev.emit(..) { log::warn!(..) }: the worker goes
\* on to next whatever emit returned
OnEmitResult(results, next) == next

\* The batch has another event: the `for` loop goes into its body
NextEvent ==
    /\ pc = "events"
    /\ pc' = "body"
    /\ event' = NoEvent
    /\ Store(Locals)
    /\ UNCHANGED <<config, stop, key_state, fetched, grabbed, ungrab, result, hvars, ovars>>

\* One pass of the body of `for event in events`, for the event the batch
\* yields
HandleEvent ==
    /\ pc = "body"
    /\ \E e \in PhysicalEvents :
          /\ event' = e
          /\ Store(ProcessEvent(Locals, e))
          /\ key_state' = IF e.type = "KEY" /\ e.code \in TriggerCodes
                          THEN [key_state EXCEPT ![e.code] = e.value]
                          ELSE key_state
    /\ pc' = OnEmitResult(emit_result', "events")
    /\ UNCHANGED <<config, stop, fetched, grabbed, ungrab, result, hvars, ovars>>

\* The batch yields no further event: the `for` loop ends
BatchEnd ==
    /\ pc = "events"
    /\ pc' = "timers"
    /\ event' = NoEvent
    /\ Store(Locals)
    /\ UNCHANGED <<config, stop, key_state, fetched, grabbed, ungrab, result, hvars, ovars>>

\* The rest of the loop body, to the end of the sleep, when d milliseconds
\* pass until then
TickSleeping(d) ==
    /\ pc = "timers"
    /\ \E s \in TimersSleeping(Locals, d) : Store(s)
    /\ pc' = OnEmitResult(emit_result', "top")
    /\ fetched' = "none"
    /\ event' = NoEvent
    /\ UNCHANGED <<config, stop, key_state, grabbed, ungrab, result, hvars, ovars>>

\* The rest of the loop body, to the end of the sleep
Tick == \E d \in 0..MaxSleep : TickSleeping(d)

\* A tick during which the clock moves on
TimePasses == \E d \in 1..MaxSleep : TickSleeping(d)

\* After the loop: cleanup, physical.ungrab().ok(), Ok(())
Exit ==
    /\ Store(Cleanup(Locals))
    /\ ungrab' \in {"Ok", "Err"}
    /\ result' = "Ok"
    /\ pc' = "done"

\* The while condition finds the stop signal set
Stopped ==
    /\ pc = "top"
    /\ ~LoopCondition
    /\ Exit
    /\ UNCHANGED <<config, stop, event, key_state, fetched, grabbed, hvars, ovars>>

\* physical.fetch_events() returns another Err: break
ReadError ==
    /\ pc = "top"
    /\ LoopCondition
    /\ fetched' = "Err"
    /\ Exit
    /\ UNCHANGED <<config, stop, event, key_state, grabbed, hvars, ovars>>

\* The owner stores true in the stop signal (gui.rs, stop_proxy).  The worker
\* loads the signal only in the while condition, so a store made during an
\* iteration is placed where the worker can next observe it.
SetStop ==
    /\ pc = "top"
    /\ ~stop
    /\ stop' = TRUE
    /\ Store(Locals)
    /\ UNCHANGED <<config, pc, event, key_state, fetched, grabbed, ungrab, result, hvars, ovars>>

Next ==
    \/ OpenDevice
    \/ GrabDevice
    \/ CreateVirtualClone
    \/ FetchEvents
    \/ WouldBlock
    \/ NextEvent
    \/ HandleEvent
    \/ BatchEnd
    \/ Tick
    \/ Stopped
    \/ ReadError
    \/ SetStop

Spec == Init /\ [][Next]_vars

\* A run in dual-trigger mode, with the record of the BTN_LEFT events handed
\* to the virtual device
DualTriggerInit ==
    /\ config \in { c \in Configs : c.smart_ads_trigger }
    /\ stop = FALSE
    /\ pc = "open"
    /\ NoLocals
    /\ left_written = None
    /\ released_since = Unrecorded
    /\ HumanizeIdle
    /\ OwnerStarted

DualTriggerSpec == DualTriggerInit /\ [][Next]_vars

\* A run in standard trigger mode, with the record of the time of the last
\* synthetic release
RetriggerInit ==
    /\ config \in { c \in Configs : ~c.smart_ads_trigger }
    /\ stop = FALSE
    /\ pc = "open"
    /\ NoLocals
    /\ left_written = Unrecorded
    /\ released_since = None
    /\ HumanizeIdle
    /\ OwnerStarted

RetriggerSpec == RetriggerInit /\ [][Next]_vars

\* The worker thread is scheduled: at the loop head with the stop signal set
\* it evaluates the loop condition and leaves the loop
LiveSpec == Spec /\ WF_vars(Stopped)

\* The worker at the head of the loop: the while condition and fetch_events
LoopHead == Stopped \/ FetchEvents \/ WouldBlock \/ ReadError

\* The worker thread keeps running: it does the next step of the loop, the
\* batch fetch_events returned comes to its end, and the clock moves on
\* (thread::sleep(250us) takes time) again and again
TickingSpec ==
    /\ Spec
    /\ WF_vars(LoopHead)
    /\ WF_vars(HandleEvent)
    /\ SF_vars(BatchEnd)
    /\ SF_vars(TimePasses)

----------------------------------------------------------------------------
(* The functions of humanize.rs and Config::validate, each applied once,   *)
(* on their own, to every argument                                         *)

\* No run is started
HumanizeInit ==
    /\ RunInit
    /\ config.custom_trigger_code = None
    /\ ~config.smart_ads_trigger /\ ~config.simulate_fatigue /\ ~config.burst_mode
    /\ HumanizeIdle
    /\ OwnerStarted

\* random_delay(min_ms, max_ms)
CallRandomDelay ==
    /\ h_call = "none"
    /\ \E min_ms \in U64, max_ms \in U64 :
          /\ h_call' = "random_delay"
          /\ h_args' = <<min_ms, max_ms>>
          /\ h_ret' \in random_delay(min_ms, max_ms)
    /\ UNCHANGED <<rvars, ovars>>

\* gaussian_delay(min_ms, max_ms)
CallGaussianDelay ==
    /\ h_call = "none"
    /\ \E min_ms \in U64, max_ms \in U64 :
          /\ h_call' = "gaussian_delay"
          /\ h_args' = <<min_ms, max_ms>>
          /\ h_ret' \in gaussian_delay(min_ms, max_ms)
    /\ UNCHANGED <<rvars, ovars>>

\* FatigueTracker::new(max_percent), click_count clicks, get_multiplier()
CallGetMultiplier ==
    /\ h_call = "none"
    /\ \E click_count \in 0..MaxClickCount, max_percent \in 0..MaxPercent :
          /\ h_call' = "get_multiplier"
          /\ h_args' = <<click_count, max_percent>>
          /\ h_ret' = FatigueSlowdown([click_count |-> click_count], max_percent)
    /\ UNCHANGED <<rvars, ovars>>

\* reset() on any tracker, calls click() calls, then the click() observed
CallBurstClick ==
    /\ h_call = "none"
    /\ \E burst_size \in 0..MaxBurstSize, calls \in 0..MaxBurstCalls,
          t \in BurstTrackers :
          LET before == BurstClicks(BurstReset(t), burst_size, calls)
          IN  /\ h_call' = "click"
              /\ h_args' = <<burst_size, calls, before>>
              /\ h_ret' = [returns |-> BurstClickReturns(before, burst_size),
                           tracker |-> BurstClick(before, burst_size)]
    /\ UNCHANGED <<rvars, ovars>>

\* end_pause() on any tracker
CallEndPause ==
    /\ h_call = "none"
    /\ \E t \in BurstTrackers :
          /\ h_call' = "end_pause"
          /\ h_args' = <<t>>
          /\ h_ret' = BurstEndPause(t)
    /\ UNCHANGED <<rvars, ovars>>

\* The delays and travel times validate() is applied to
ValidateDelays == (ClickDelayFloor - ValidateSpan)..(ClickDelayFloor + ValidateSpan)
ValidateTravels == 0..ValidateSpan

\* Config::validate on a configuration with any device path and bounds
CallValidate ==
    /\ h_call = "none"
    /\ \E device \in {"", DevicePath}, min_c \in ValidateDelays, max_c \in ValidateDelays,
          min_t \in ValidateTravels, max_t \in ValidateTravels :
          LET cfg == [config EXCEPT !.device_path = device,
                                    !.click_delay_min_ms = min_c,
                                    !.click_delay_max_ms = max_c,
                                    !.travel_time_min_ms = min_t,
                                    !.travel_time_max_ms = max_t]
          IN  /\ h_call' = "validate"
              /\ h_args' = <<cfg>>
              /\ h_ret' = validate(cfg)
    /\ UNCHANGED <<rvars, ovars>>

\* random_travel_time(min_ms, max_ms, jitter) and
\* gaussian_travel_time(min_ms, max_ms, jitter)
CallTravelTime ==
    /\ h_call = "none"
    /\ \E min_ms \in U64, max_ms \in U64, jitter \in BOOLEAN :
          /\ h_args' = <<min_ms, max_ms, jitter>>
          /\ \/ /\ h_call' = "random_travel_time"
                /\ h_ret' \in random_travel_time(min_ms, max_ms, jitter)
             \/ /\ h_call' = "gaussian_travel_time"
                /\ h_ret' \in gaussian_travel_time(min_ms, max_ms, jitter)
    /\ UNCHANGED <<rvars, ovars>>

\* The max slowdown percents apply() is applied with
FatiguePercents == {0, default_fatigue_max_percent, MaxPercent}

\* FatigueTracker::new(max_percent), click_count clicks, apply(ms)
CallFatigueApply ==
    /\ h_call = "none"
    /\ \E click_count \in 0..MaxClickCount, max_percent \in FatiguePercents,
          ms \in U64 :
          /\ h_call' = "apply"
          /\ h_args' = <<click_count, max_percent, ms>>
          /\ h_ret' = FatigueApply([click_count |-> click_count], max_percent, ms)
    /\ UNCHANGED <<rvars, ovars>>

HumanizeNext ==
    \/ CallFatigueApply
    \/ CallTravelTime
    \/ CallValidate
    \/ CallRandomDelay
    \/ CallGaussianDelay
    \/ CallGetMultiplier
    \/ CallBurstClick
    \/ CallEndPause

HumanizeSpec == HumanizeInit /\ [][HumanizeNext]_vars

----------------------------------------------------------------------------
(* The recording thread (src/device.rs, record_button_press).  rec_pc is   *)
(* "none" (no thread), "open", "head" (the while condition), "fetch",      *)
(* "scan" (the match on what fetch_events returned), "sleep" or "done"     *)
(* (returned, not joined yet).                                             *)

\* The events the device delivers to the recording thread
RecEvents == {KeyEv(BTN_LEFT, 1), KeyEv(BTN_RIGHT, 1), KeyEv(BTN_LEFT, 0)}

SeqsUpTo(S, n) == UNION { [1..k -> S] : k \in 0..n }

\* for event in events: the code of the first KEY event with value 1, or
\* None when the batch has none
RECURSIVE ScanBatch(_)
ScanBatch(batch) ==
    IF batch = <<>> THEN None
    ELSE IF Head(batch).type = "KEY" /\ Head(batch).value = 1 THEN Head(batch).code
    ELSE ScanBatch(Tail(batch))

\* A loop condition that reads the proxy's stop signal too
RecLoopCondition_ReadsStop ==
    ~recording_cancel /\ ~stop /\ rec_elapsed < RecordTimeout

\* while !cancel.load(Ordering::Relaxed) && start.elapsed() < timeout
RecLoopCondition == ~recording_cancel /\ rec_elapsed < RecordTimeout

\* The recording thread returns value
RecReturn(value) == rec_pc' = "done" /\ rec_result' = value

\* What no step of the recording thread changes
RecFrame ==
    UNCHANGED <<rvars, hvars, app_config, running, proxy_handle, error_message,
                owner_pc, spawned, recording, recording_cancel>>

\* Device::open(device_path), fcntl, Instant::now()
RecOpen ==
    /\ rec_pc = "open"
    /\ \/ rec_pc' = "head" /\ rec_result' = rec_result
       \/ RecReturn(None)
    /\ UNCHANGED <<rec_elapsed, rec_batch>>
    /\ RecFrame

\* The while condition
RecLoopHead ==
    /\ rec_pc = "head"
    /\ IF RecLoopCondition
       THEN rec_pc' = "fetch" /\ rec_result' = rec_result
       ELSE RecReturn(None)
    /\ UNCHANGED <<rec_elapsed, rec_batch>>
    /\ RecFrame

\* device.fetch_events(): Ok(events), Err(WouldBlock) or another Err
RecFetch ==
    /\ rec_pc = "fetch"
    /\ \/ /\ rec_batch' \in SeqsUpTo(RecEvents, MaxRecBatch)
          /\ rec_pc' = "scan"
          /\ rec_result' = rec_result
       \/ rec_batch' = <<>> /\ rec_pc' = "sleep" /\ rec_result' = rec_result
       \/ rec_batch' = <<>> /\ RecReturn(None)
    /\ UNCHANGED rec_elapsed
    /\ RecFrame

\* Ok(events) => for event in events
RecScan ==
    /\ rec_pc = "scan"
    /\ IF ScanBatch(rec_batch) # None
       THEN RecReturn(ScanBatch(rec_batch))
       ELSE rec_pc' = "sleep" /\ rec_result' = rec_result
    /\ rec_batch' = <<>>
    /\ UNCHANGED rec_elapsed
    /\ RecFrame

\* std::thread::sleep(Duration::from_millis(10))
RecSleep ==
    /\ rec_pc = "sleep"
    /\ rec_pc' = "head"
    /\ rec_elapsed' = rec_elapsed + RecordPoll
    /\ UNCHANGED <<rec_batch, rec_result>>
    /\ RecFrame

Recorder == RecOpen \/ RecLoopHead \/ RecFetch \/ RecScan \/ RecSleep

----------------------------------------------------------------------------
(* The owner (src/gui.rs, FerrisFireApp).  An action is one handler of     *)
(* update(); update() looks at a finished recording before it draws the    *)
(* widgets, so no widget is used while one is due.  The worker the owner   *)
(* spawns takes the steps of run_proxy_loop before and after the loop; the *)
(* iterations of the loop, which change nothing the owner reads, are no    *)
(* steps of OwnerSpec.                                                     *)

\* The configuration without custom trigger and with every option off
PlainConfig ==
    CHOOSE c \in Configs :
        /\ c.custom_trigger_code = None
        /\ ~c.smart_ads_trigger /\ ~c.simulate_fatigue /\ ~c.burst_mode

\* The values of click_delay_min_ms and travel_time_min_ms the owner may hold:
\* below the floor, within the bounds and above the maximum
ClickDelayMins ==
    {ClickDelayFloor - 1, ClickDelayFloor, ClickDelayFloor + ClickDelaySpan + 1}
TravelMins == {TravelMin, TravelMin + TravelSpan + 1}

\* Config::load(): whatever the file holds
LoadedConfigs ==
    { [PlainConfig EXCEPT !.device_path = d,
                          !.click_delay_min_ms = c,
                          !.travel_time_min_ms = tr,
                          !.custom_trigger_code = k] :
        d \in {"", DevicePath}, c \in ClickDelayMins, tr \in TravelMins,
        k \in {None, BTN_LEFT, BTN_RIGHT} }

\* The values the "Min (ms)" slider of the click delay gives: 10..=200
SliderClickDelayMins == { c \in ClickDelayMins : c >= ClickDelayFloor }

\* update() has a finished recording to look at
RecordingDue == recording /\ rec_pc = "done"

\* The owner is between two handlers and the widgets are drawn
AtWidgets == owner_pc = "ui" /\ ~RecordingDue

\* A start_proxy that does not look at what validate() returns
StartRefused_Never(cfg) == FALSE

\* if let Err(e) = self.config.validate()
StartRefused(cfg) == validate(cfg) # "Ok"

\* start_proxy without the store of false to stop_signal
StartProxy_KeepsStop ==
    /\ AtWidgets
    /\ ~running
    /\ IF StartRefused(app_config)
       THEN /\ error_message' = validate(app_config)
            /\ UNCHANGED <<rvars, running, proxy_handle, spawned>>
       ELSE /\ error_message' = "none"
            /\ stop' = stop
            /\ config' = app_config
            /\ pc' = "open"
            /\ Store(StartLocals(0, 0))
            /\ event' = NoEvent
            /\ key_state' = [c \in TriggerCodesOf(app_config) |-> None]
            /\ fetched' = "none"
            /\ grabbed' = FALSE
            /\ ungrab' = "none"
            /\ result' = "none"
            /\ proxy_handle' = TRUE
            /\ running' = TRUE
            /\ spawned' = Min(spawned + 1, MaxSpawned)
    /\ UNCHANGED <<app_config, owner_pc, recording, recording_cancel, rec_pc,
                   rec_elapsed, rec_batch, rec_result, hvars>>

\* toggle_proxy while not running: start_proxy
StartProxy ==
    /\ AtWidgets
    /\ ~running
    /\ IF StartRefused(app_config)
       THEN /\ error_message' = validate(app_config)
            /\ UNCHANGED <<rvars, running, proxy_handle, spawned>>
       ELSE /\ error_message' = "none"
            /\ stop' = FALSE
            /\ config' = app_config
            /\ pc' = "open"
            /\ Store(StartLocals(0, 0))
            /\ event' = NoEvent
            /\ key_state' = [c \in TriggerCodesOf(app_config) |-> None]
            /\ fetched' = "none"
            /\ grabbed' = FALSE
            /\ ungrab' = "none"
            /\ result' = "none"
            /\ proxy_handle' = TRUE
            /\ running' = TRUE
            /\ spawned' = Min(spawned + 1, MaxSpawned)
    /\ UNCHANGED <<app_config, owner_pc, recording, recording_cancel, rec_pc,
                   rec_elapsed, rec_batch, rec_result, hvars>>

\* stop_proxy that drops the handle without joining the worker
StopProxy_NoJoin ==
    /\ AtWidgets
    /\ running
    /\ stop' = TRUE
    /\ owner_pc' = owner_pc
    /\ running' = FALSE
    /\ proxy_handle' = FALSE
    /\ Store(Locals)
    /\ UNCHANGED <<config, pc, event, key_state, fetched, grabbed, ungrab, result,
                   app_config, error_message, spawned, recording,
                   recording_cancel, rec_pc, rec_elapsed, rec_batch, rec_result, hvars>>

\* toggle_proxy while running: stop_proxy, to the call of handle.join()
StopProxy ==
    /\ AtWidgets
    /\ running
    /\ stop' = TRUE
    /\ IF proxy_handle
       THEN owner_pc' = "join" /\ running' = running
       ELSE owner_pc' = owner_pc /\ running' = FALSE
    /\ Store(Locals)
    /\ UNCHANGED <<config, pc, event, key_state, fetched, grabbed, ungrab, result,
                   app_config, proxy_handle, error_message, spawned, recording,
                   recording_cancel, rec_pc, rec_elapsed, rec_batch, rec_result, hvars>>

\* on_exit: stop_proxy if running, to the call of handle.join()
OnExit ==
    /\ owner_pc = "ui"
    /\ IF running
       THEN /\ stop' = TRUE
            /\ IF proxy_handle
               THEN owner_pc' = "exit_join" /\ running' = running
               ELSE owner_pc' = "exited" /\ running' = FALSE
       ELSE /\ stop' = stop
            /\ owner_pc' = "exited"
            /\ running' = running
    /\ Store(Locals)
    /\ UNCHANGED <<config, pc, event, key_state, fetched, grabbed, ungrab, result,
                   app_config, proxy_handle, error_message, spawned, recording,
                   recording_cancel, rec_pc, rec_elapsed, rec_batch, rec_result, hvars>>

\* handle.join() returns what the worker returned; the rest of stop_proxy.
\* The thread is gone, and its snapshot, locals and devices with it.
JoinReturns ==
    /\ owner_pc \in {"join", "exit_join"}
    /\ pc = "done"
    /\ error_message' = IF result = "Ok" THEN error_message ELSE result
    /\ proxy_handle' = FALSE
    /\ running' = FALSE
    /\ owner_pc' = IF owner_pc = "join" THEN "ui" ELSE "exited"
    /\ pc' = "idle"
    /\ Store(StartLocals(0, 0))
    /\ event' = NoEvent
    /\ fetched' = "none"
    /\ grabbed' = FALSE
    /\ ungrab' = "none"
    /\ result' = "none"
    /\ config' = PlainConfig
    /\ key_state' = [c \in TriggerCodesOf(PlainConfig) |-> None]
    /\ UNCHANGED <<stop, app_config, spawned, recording, recording_cancel,
                   rec_pc, rec_elapsed, rec_batch, rec_result, hvars>>

\* What no settings widget changes
SettingsFrame ==
    UNCHANGED <<rvars, hvars, running, proxy_handle, error_message, owner_pc,
                spawned, recording, recording_cancel, rec_pc, rec_elapsed, rec_batch,
                rec_result>>

\* The device list: a device is picked, or refresh_devices clears the path
SelectDevice ==
    /\ AtWidgets
    /\ ~running
    /\ \E d \in {"", DevicePath} :
          /\ d # app_config.device_path
          /\ app_config' = [app_config EXCEPT !.device_path = d]
    /\ SettingsFrame

\* The sliders of the timing settings
EditTiming ==
    /\ AtWidgets
    /\ ~running
    /\ \E c \in SliderClickDelayMins \cup {app_config.click_delay_min_ms},
          tr \in TravelMins :
          /\ app_config' = [app_config EXCEPT !.click_delay_min_ms = c,
                                              !.travel_time_min_ms = tr]
          /\ app_config' # app_config
    /\ SettingsFrame

\* "Clear Custom"
ClearCustom ==
    /\ AtWidgets
    /\ ~running /\ ~recording
    /\ app_config.custom_trigger_code # None
    /\ app_config' = [app_config EXCEPT !.custom_trigger_code = None]
    /\ SettingsFrame

\* "Record Button"
RecordButton ==
    /\ AtWidgets
    /\ ~running /\ ~recording
    /\ IF app_config.device_path # ""
       THEN /\ recording_cancel' = FALSE
            /\ rec_pc' = "open"
            /\ rec_elapsed' = 0
            /\ rec_batch' = <<>>
            /\ rec_result' = None
            /\ recording' = TRUE
            /\ error_message' = error_message
       ELSE /\ error_message' = "Select a device first"
            /\ UNCHANGED <<recording, recording_cancel, rec_pc, rec_elapsed,
                           rec_batch, rec_result>>
    /\ UNCHANGED <<rvars, hvars, app_config, running, proxy_handle, owner_pc,
                   spawned>>

\* "Cancel Recording"
CancelRecording ==
    /\ AtWidgets
    /\ recording
    /\ ~recording_cancel
    /\ recording_cancel' = TRUE
    /\ UNCHANGED <<rvars, hvars, app_config, running, proxy_handle, error_message,
                   owner_pc, spawned, recording, rec_pc, rec_elapsed, rec_batch,
                   rec_result>>

\* "Check if recording finished": handle.is_finished(), handle.join()
RecordingFinished ==
    /\ owner_pc = "ui"
    /\ RecordingDue
    /\ app_config' = IF rec_result # None
                     THEN [app_config EXCEPT !.custom_trigger_code = rec_result]
                     ELSE app_config
    /\ recording' = FALSE
    /\ rec_pc' = "none"
    /\ rec_elapsed' = 0
    /\ rec_batch' = <<>>
    /\ rec_result' = None
    /\ UNCHANGED <<rvars, hvars, running, proxy_handle, error_message, owner_pc,
                   spawned, recording_cancel>>

\* FerrisFireApp::new: the configuration is loaded, nothing runs
OwnerInit ==
    /\ app_config \in LoadedConfigs
    /\ running = FALSE
    /\ proxy_handle = FALSE
    /\ error_message = "none"
    /\ owner_pc = "ui"
    /\ spawned = 0
    /\ recording = FALSE
    /\ recording_cancel = FALSE
    /\ rec_pc = "none"
    /\ rec_elapsed = 0
    /\ rec_batch = <<>>
    /\ rec_result = None
    /\ config = PlainConfig
    /\ stop = FALSE
    /\ pc = "idle"
    /\ left_written = Unrecorded
    /\ released_since = Unrecorded
    /\ NoLocals
    /\ HumanizeIdle

OwnerNext ==
    \/ StartProxy
    \/ StopProxy
    \/ OnExit
    \/ JoinReturns
    \/ SelectDevice
    \/ EditTiming
    \/ ClearCustom
    \/ RecordButton
    \/ CancelRecording
    \/ RecordingFinished
    \/ RecOpen
    \/ RecLoopHead
    \/ RecFetch
    \/ RecScan
    \/ RecSleep
    \/ OpenDevice
    \/ GrabDevice
    \/ CreateVirtualClone
    \/ Stopped
    \/ ReadError

OwnerSpec == OwnerInit /\ [][OwnerNext]_vars

\* The recording thread is scheduled
OwnerLiveSpec == OwnerSpec /\ WF_vars(Recorder)

----------------------------------------------------------------------------
(* What the virtual device was handed.  A passthrough frame is the one     *)
(* event read (emit(&[event])); a synthetic frame is a BTN_LEFT event and  *)
(* a SYN_REPORT (emit(&[btn, sync])).                                      *)

IsPassthroughFrame(f) == Len(f) = 1
IsSyntheticFrame(f) == Len(f) = 2 /\ f[1].type = "KEY" /\ f[1].code = BTN_LEFT /\ f[2] = SynEv

PassFrames(frames) == SelectSeq(frames, IsPassthroughFrame)

\* The values of the synthetic button events among frames, in order
SynthValues(frames) ==
    LET syn == SelectSeq(frames, IsSyntheticFrame)
    IN  [i \in 1..Len(syn) |-> syn[i][1].value]

Last(seq) == seq[Len(seq)]

InFlight == button_down_since # None

Firing == rapid_fire_active(Locals)

IsKey(e, code) == e.type = "KEY" /\ e.code = code

\* The step taken is one pass of the event loop body
EventStep == pc = "body"

\* The locals after the step, with the frames the step handed to emit
LocalsAfter ==
    [ trigger_held        |-> trigger_held',
      rmb_held            |-> rmb_held',
      lmb_held            |-> lmb_held',
      last_click_complete |-> last_click_complete',
      next_interval       |-> next_interval',
      button_down_since   |-> button_down_since',
      current_travel      |-> current_travel',
      fatigue_tracker     |-> fatigue_tracker',
      burst_tracker       |-> burst_tracker',
      burst_pause_start   |-> burst_pause_start',
      current_burst_pause |-> current_burst_pause',
      burst_done_since    |-> burst_done_since',
      synth_log           |-> synth_log',
      left_written        |-> left_written',
      released_since      |-> released_since',
      out                 |-> emitted' ]

\* The step is the rest of the loop body after the events
TimerStep == pc = "timers"

\* The step hands a synthetic press to the virtual device
PressEmitted == \E i \in 1..Len(emitted') : emitted'[i] = <<KeyEv(BTN_LEFT, 1), SynEv>>

\* The step hands a synthetic release to the virtual device
ReleaseEmitted == \E i \in 1..Len(emitted') : emitted'[i] = <<KeyEv(BTN_LEFT, 0), SynEv>>

\* The last synthetic button event written is a press
Pressed == synth_log # <<>> /\ Last(synth_log) = 1

\* Some emit call of the step returned Err
EmitFailed(results) == \E i \in DOMAIN results : results[i] = "Err"

\* The state the trigger-release cleanup leaves
CleanedUp ==
    /\ button_down_since = None
    /\ fatigue_tracker.click_count = 0
    /\ burst_tracker.clicks_in_burst = 0
    /\ ~burst_tracker.in_pause
    /\ burst_pause_start = None

----------------------------------------------------------------------------
(* Claims *)

\* C1: in single-trigger mode no passthrough frame handed to the virtual
\* device carries a KEY event with the configured trigger code, whatever the
\* event's value and whatever the click state.
C1_TriggerNeverForwarded ==
    ~config.smart_ads_trigger =>
        \A i \in 1..Len(emitted) :
            IsPassthroughFrame(emitted[i]) =>
                ~IsKey(emitted[i][1], effective_trigger_code(config))

\* A trigger press was processed while a click was in flight, and nothing
\* was forwarded
C1_Witness ==
    /\ ~config.smart_ads_trigger
    /\ IsKey(event, effective_trigger_code(config))
    /\ event.value = 1
    /\ InFlight
    /\ emitted = <<>>

\* The events the claim classifies as trigger events: in single mode a KEY
\* event with the trigger code, in dual mode a fire-key event while aim is held
C2_IsTriggerEvent(e) ==
    IF config.smart_ads_trigger
    THEN IsKey(e, BTN_LEFT) /\ rmb_held
    ELSE IsKey(e, effective_trigger_code(config))

\* C2: the step that processes an event hands the virtual device exactly one
\* passthrough frame, the event itself, when the event is no trigger event,
\* and none when it is; no other step hands it a passthrough frame.  Events
\* are processed one per step in the order the batch yields them, so every
\* event that is no trigger event is written once, unmodified and in order.
C2_PassthroughExactlyOnce ==
    [][ IF EventStep
        THEN PassFrames(emitted') =
                 IF C2_IsTriggerEvent(event') THEN <<>> ELSE << <<event'>> >>
        ELSE PassFrames(emitted') = <<>> ]_vars

\* A motion event was forwarded while a click was in flight
C2_Witness ==
    /\ event = RelEv
    /\ emitted = << <<RelEv>> >>
    /\ InFlight
    /\ pc = "events"

\* C3: on the synthetic events handed to the virtual device presses and
\* releases strictly alternate, starting with a press: every synthetic value
\* written differs from the synthetic value written before it, and the first
\* one differs from a release.
C3_SynthAlternates ==
    [][ LET new == SynthValues(emitted')
            before(i) == IF i > 1 THEN new[i - 1]
                         ELSE IF synth_log = <<>> THEN 0 ELSE Last(synth_log)
        IN  \A i \in 1..Len(new) : new[i] # before(i) ]_vars

\* A second click was started after the first was released
C3_Witness ==
    /\ synth_log = <<0, 1>>
    /\ InFlight
    /\ emitted = << <<KeyEv(BTN_LEFT, 1), SynEv>> >>

\* C4: the step that processes a trigger release (trigger_held falls) in
\* single-trigger mode hands the virtual device exactly one synthetic release
\* when a click is in flight and none when no click is in flight; after it no
\* click is in flight and the last synthetic event written is not a press.
C4_ReleaseOnFallingEdge ==
    [][ (EventStep /\ ~config.smart_ads_trigger /\ trigger_held /\ ~trigger_held') =>
            /\ SynthValues(emitted') = IF InFlight THEN <<0>> ELSE <<>>
            /\ ~InFlight'
            /\ (synth_log' # <<>> => Last(synth_log') = 0) ]_vars

\* A trigger release was processed while a click was in flight
C4_Witness ==
    /\ ~config.smart_ads_trigger
    /\ event = KeyEv(effective_trigger_code(config), 0)
    /\ emitted = << <<KeyEv(BTN_LEFT, 0), SynEv>> >>
    /\ pc = "events"
    /\ ~trigger_held

\* C5: at the end of every loop tick, when firing is false no synthetic click
\* is in flight, the fatigue click count and the burst counter are 0, the
\* burst pause flag is clear and no burst pause is pending.
C5_IdleIsClean == (pc = "top" /\ ~Firing) => CleanedUp

\* A tick ended with the trigger released after clicks were made with
\* fatigue and burst on
C5_Witness ==
    /\ pc = "top"
    /\ ~config.smart_ads_trigger
    /\ config.simulate_fatigue
    /\ config.burst_mode
    /\ key_state[effective_trigger_code(config)] = 0
    /\ synth_log = <<1, 0>>
    /\ ~Firing

\* C6: a synthetic press is written only by the timer part of a tick, with
\* firing true after that tick's events were drained, and only while the last
\* event processed for every trigger key is a press.
C6_PressOnlyWhileFiring ==
    [][ (\E i \in 1..Len(SynthValues(emitted')) : SynthValues(emitted')[i] = 1) =>
            /\ pc = "timers"
            /\ Firing
            /\ \A c \in TriggerCodes : key_state[c] = 1 ]_vars

\* A tick started a click
C6_Witness ==
    /\ pc = "top"
    /\ emitted = << <<KeyEv(BTN_LEFT, 1), SynEv>> >>
    /\ Firing
    /\ button_down_since # None

\* C7: in dual-trigger mode, when the last event processed for each of the
\* two keys is a press or a release (or none yet), firing is true iff both
\* keys were last pressed.
C7_FiringIffBothHeld ==
    (/\ config.smart_ads_trigger
     /\ key_state[BTN_RIGHT] \in {None, 0, 1}
     /\ key_state[BTN_LEFT] \in {None, 0, 1}) =>
        (Firing <=> (key_state[BTN_RIGHT] = 1 /\ key_state[BTN_LEFT] = 1))

\* Both keys are held and a click is in flight
C7_Witness ==
    /\ config.smart_ads_trigger
    /\ key_state[BTN_RIGHT] = 1
    /\ key_state[BTN_LEFT] = 1
    /\ Firing
    /\ InFlight

\* C8: in dual-trigger mode the step that processes an aim-key event forwards
\* it, and the step that processes a fire-key event forwards it iff the aim
\* key is not held at that moment.
C8_DualForwarding ==
    [][ (EventStep /\ config.smart_ads_trigger) =>
            /\ IsKey(event', BTN_RIGHT) => PassFrames(emitted') = << <<event'>> >>
            /\ IsKey(event', BTN_LEFT) =>
                   PassFrames(emitted') = IF rmb_held THEN <<>> ELSE << <<event'>> >> ]_vars

\* A fire press was suppressed while aim was held
C8_Witness ==
    /\ config.smart_ads_trigger
    /\ event = KeyEv(BTN_LEFT, 1)
    /\ rmb_held
    /\ emitted = <<>>
    /\ pc = "events"

\* C9: in dual-trigger mode the step that processes a release of the aim or
\* the fire key while firing is active releases an in-flight synthetic click
\* at once, whatever its age, and resets the fatigue and burst state.
C9_DualReleaseCleansUp ==
    [][ (/\ EventStep
         /\ config.smart_ads_trigger
         /\ Firing
         /\ (IsKey(event', BTN_RIGHT) \/ IsKey(event', BTN_LEFT))
         /\ event'.value = 0) =>
            /\ SynthValues(emitted') = IF InFlight THEN <<0>> ELSE <<>>
            /\ CleanedUp' ]_vars

\* An aim release was processed while a click was in flight: the click was
\* released and the aim event forwarded
C9_Witness ==
    /\ config.smart_ads_trigger
    /\ event = KeyEv(BTN_RIGHT, 0)
    /\ lmb_held
    /\ emitted = << <<KeyEv(BTN_LEFT, 0), SynEv>>, <<KeyEv(BTN_RIGHT, 0)>> >>
    /\ fatigue_tracker.click_count = 0

\* C10: processing a KEY event with a trigger code and a value other than 0
\* and 1 leaves the held state, the in-flight click and the fatigue and burst
\* state unchanged.
C10_OtherValuesIgnored ==
    [][ (/\ EventStep
         /\ \E c \in TriggerCodes : IsKey(event', c)
         /\ event'.value \notin {0, 1}) =>
            UNCHANGED <<trigger_held, rmb_held, lmb_held, button_down_since,
                        fatigue_tracker, burst_tracker, burst_pause_start>> ]_vars

\* C11: once the stop signal is set the worker starts no further iteration:
\* the next evaluation of the loop condition leaves the loop, from every loop
\* state (a burst pause pending, a click in flight), the signal stays set,
\* and the worker then returns.
C11_StopEndsLoop ==
    /\ [][ (stop /\ pc = "top") => pc' = "done" ]_vars
    /\ [][ stop => stop' ]_vars
    /\ (stop ~> (pc = "done" /\ result = "Ok"))

\* The stop signal is set at the loop head while a burst pause is pending
C11_Witness ==
    /\ stop
    /\ pc = "top"
    /\ burst_pause_start # None
    /\ burst_tracker.in_pause

\* C12: the step that leaves the loop (stop signal or read failure) hands the
\* virtual device exactly one synthetic release when a click is in flight and
\* none when no click is in flight, so the last synthetic event handed to the
\* device when the worker has returned is not a press.
C12_ExitReleasesClick ==
    /\ [][ (pc = "top" /\ pc' = "done") =>
               SynthValues(emitted') = IF InFlight THEN <<0>> ELSE <<>> ]_vars
    /\ [](pc = "done" => (synth_log = <<>> \/ Last(synth_log) = 0))

\* A read failure ended the loop while a click was in flight
C12_Witness ==
    /\ pc = "done"
    /\ fetched = "Err"
    /\ ~stop
    /\ result = "Ok"
    /\ emitted = << <<KeyEv(BTN_LEFT, 0), SynEv>> >>

C14_ReadFailureReturnsErr == (pc = "done" /\ fetched = "Err") => result # "Ok"

\* The step after each of the three steps before the loop
C15_NextStep(p) ==
    CASE p = "open" -> "grab" [] p = "grab" -> "clone" [] p = "clone" -> "top"

\* The error the run returns for each of them
C15_Error(p) ==
    CASE p = "open" -> "Failed to open device"
      [] p = "grab" -> "Failed to grab device"
      [] p = "clone" -> "Failed to create virtual device"

\* C15: when opening the device, grabbing it or creating the virtual clone
\* fails, that step ends the run with the error of that step; a run that
\* returned an error never entered the loop and handed no frame to the
\* virtual device, and a worker that returned takes no further step (no retry).
C15_StartupFailureEndsRun ==
    /\ [][ (pc \in {"open", "grab", "clone"} /\ pc' # C15_NextStep(pc)) =>
               /\ pc' = "done"
               /\ result' = C15_Error(pc)
               /\ emitted' = <<>>
               /\ synth_log' = <<>> ]_vars
    /\ [][ pc # "done" ]_vars
    /\ [](result \notin {"none", "Ok"} =>
             /\ pc = "done"
             /\ fetched = "none"
             /\ emitted = <<>>
             /\ synth_log = <<>>)

\* Creating the virtual clone failed after the grab
C15_Witness ==
    /\ pc = "done"
    /\ result = "Failed to create virtual device"
    /\ grabbed
    /\ emitted = <<>>

\* C16: a would-block result does not end the loop or the run, writes
\* nothing and leaves the held states and every other local unchanged, and
\* the rest of that iteration does what the rest of any iteration does from
\* the same locals (burst pause end, click release, new press, sleep).
C16_WouldBlockIsNoError ==
    [][ /\ (pc = "top" /\ fetched' = "WouldBlock") =>
               /\ pc' = "timers"
               /\ result' = "none"
               /\ LocalsAfter = Locals
        /\ (pc = "timers" /\ fetched = "WouldBlock") =>
               /\ pc' = "top"
               /\ result' = "none"
               /\ LocalsAfter \in Timers(Locals) ]_vars

\* The poll would block in a tick in which the release of a click is due
C16_Witness ==
    /\ pc = "timers"
    /\ fetched = "WouldBlock"
    /\ result = "none"
    /\ InFlight
    /\ button_down_since >= current_travel

\* C17: a step in which an emit call fails goes on as it does otherwise (the
\* event loop goes back to its head, the tick ends at the loop head, the run
\* has not returned an error) and hands no frame to the device twice; the
\* step that follows writes no passthrough frame and, unless it is the cleanup
\* on leaving the loop, no frame at all, and leaves the locals as they were
\* after that step: the failed frame is not written again.
C17_EmitFailureAbsorbed ==
    [][ /\ EmitFailed(emit_result') =>
               /\ pc = "body" => pc' = "events"
               /\ pc = "timers" => pc' = "top"
               /\ result' \in {"none", "Ok"}
               /\ \A i, j \in DOMAIN emitted' : i # j => emitted'[i] # emitted'[j]
        /\ EmitFailed(emit_result) =>
               /\ PassFrames(emitted') = <<>>
               /\ pc' # "done" => (emitted' = <<>> /\ LocalsAfter = Locals) ]_vars

\* Writing a synthetic press failed: the tick ended as usual and the click
\* counts as in flight
C17_Witness ==
    /\ pc = "top"
    /\ emitted = << <<KeyEv(BTN_LEFT, 1), SynEv>> >>
    /\ emit_result = <<"Err">>
    /\ InFlight
    /\ result = "none"

\* C18: the interval sampler, uniform or gaussian, returns a whole number of
\* milliseconds in [min, max] when min <= max and exactly min when min >= max.
C18_SamplerInRange ==
    h_call \in {"random_delay", "gaussian_delay"} =>
        LET min_ms == h_args[1]
            max_ms == h_args[2]
        IN  /\ min_ms <= max_ms => h_ret \in min_ms..max_ms
            /\ min_ms >= max_ms => h_ret = min_ms

\* C19: for every click count and every max slowdown percent the fatigue
\* multiplier lies in [1.0, 1 + max slowdown], that is the slowdown lies
\* between 0 and max_percent (in hundredths of a percent), and it is exactly
\* 1.0 when click_count mod cycle_length is 0.
C19_MultiplierInRange ==
    h_call = "get_multiplier" =>
        LET click_count == h_args[1]
            max_percent == h_args[2]
        IN  /\ 0 <= h_ret
            /\ h_ret <= 100 * max_percent
            /\ click_count % cycle_length = 0 => h_ret = 0

\* The multiplier at the start of the third cycle, with the default percent
C19_Witness ==
    /\ h_call = "get_multiplier"
    /\ h_args = <<2 * cycle_length, default_fatigue_max_percent>>
    /\ h_ret = 0

\* C20: by position p = click_count mod cycle_length the slowdown has three
\* phases.  Over the first 50% of the cycle it starts at 0 and rises by the
\* same positive amount from each position to the next, the step into the
\* plateau at 50% included; from 50% to 80% it is the full slowdown; from 80%
\* on it starts at the full slowdown and falls by the same amount from each
\* position to the next, 1/20 of the full slowdown per hundredth of the
\* cycle, which leaves one such step above 0 at the last position.
C20_ThreePhases ==
    h_call = "get_multiplier" =>
        LET click_count == h_args[1]
            max_percent == h_args[2]
            position == click_count % cycle_length
            full == 100 * max_percent
            S(c) == FatigueSlowdown([click_count |-> c], max_percent)
            first == S(click_count - position + 1)
        IN  /\ position = 0 => h_ret = 0
            /\ 2 * position < cycle_length =>
                   /\ S(click_count + 1) - h_ret = first
                   /\ max_percent > 0 => first > 0
                   /\ S(click_count - position + cycle_length \div 2) = full
            /\ (2 * position >= cycle_length /\ 10 * position < 8 * cycle_length) =>
                   h_ret = full
            /\ 10 * position >= 8 * cycle_length =>
                   /\ 10 * position = 8 * cycle_length => h_ret = full
                   /\ position < cycle_length - 1 =>
                          (h_ret - S(click_count + 1)) * cycle_length = 5 * full
                   /\ position = cycle_length - 1 => h_ret * cycle_length = 5 * full

\* The last position of the ramp in the second cycle, with the default percent
C20_Witness ==
    /\ h_call = "get_multiplier"
    /\ h_args = <<cycle_length + 49, default_fatigue_max_percent>>
    /\ h_ret = 2940

----------------------------------------------------------------------------
\* C21: from a reset burst tracker with burst_size >= 1, click() returns
\* false on each of the first burst_size - 1 calls and leaves in_pause clear,
\* returns true on call number burst_size and sets in_pause; every later
\* click(), made while paused, returns true and leaves the counter as it is;
\* end_pause() sets the counter to 0 and clears in_pause.
C21_BurstClickContract ==
    /\ h_call = "click" /\ h_args[1] >= 1 =>
          LET burst_size == h_args[1]
              call == h_args[2] + 1
              before == h_args[3]
          IN  /\ call < burst_size =>
                    /\ ~h_ret.returns
                    /\ ~h_ret.tracker.in_pause
                    /\ h_ret.tracker.clicks_in_burst = call
              /\ call = burst_size =>
                    /\ h_ret.returns
                    /\ ~before.in_pause
                    /\ h_ret.tracker.in_pause
              /\ call > burst_size =>
                    /\ h_ret.returns
                    /\ before.in_pause
                    /\ h_ret.tracker.in_pause
                    /\ h_ret.tracker.clicks_in_burst = before.clicks_in_burst
    /\ h_call = "end_pause" =>
          h_ret.clicks_in_burst = 0 /\ ~h_ret.in_pause

\* A click() made while the tracker is in pause, after a burst of two or more
C21_Witness ==
    /\ h_call = "click"
    /\ h_args[1] >= 2
    /\ h_args[2] > h_args[1]
    /\ h_ret.returns

----------------------------------------------------------------------------
\* C22 as stated: with burst mode on and firing true all along, the first
\* press after the release that completed a burst starts when between 80%
\* and 120% of config.burst_pause_ms have passed since that release.
C22_PressWithinBand ==
    [][ TimerStep /\ PressEmitted /\ burst_done_since # None =>
            /\ 10 * burst_done_since >= 8 * config.burst_pause_ms
            /\ 10 * burst_done_since <= 12 * config.burst_pause_ms ]_vars

\* C22 amended: with burst mode on and firing true all along, no press starts
\* while the pause drawn at the release that completed the burst is pending;
\* the pause is (burst_pause_ms * v) as u64 for a v in [0.8, 1.2); and the
\* first press after it starts no earlier than that pause plus next_interval
\* after the release.
C22_PressAfterPauseAndInterval ==
    [][ TimerStep /\ burst_done_since # None =>
            /\ config.burst_mode
            /\ Firing
            /\ 10 * (current_burst_pause + 1) > 8 * config.burst_pause_ms
            /\ 10 * current_burst_pause < 12 * config.burst_pause_ms
            /\ burst_pause_start # None /\ burst_pause_start < current_burst_pause
                   => ~PressEmitted
            /\ PressEmitted =>
                   burst_done_since >= current_burst_pause + next_interval ]_vars

\* The tick that starts the first press after a burst pause is reached
C22_Witness ==
    /\ pc = "timers"
    /\ burst_done_since # None
    /\ burst_pause_start = None
    /\ should_click(Locals)

----------------------------------------------------------------------------
\* C23: while the worker keeps ticking and the clock moves on, every synthetic
\* press is followed by a synthetic release, and whenever firing is true and
\* no click is pressed (after a release, during and after a burst pause) a
\* new synthetic press follows, unless firing ends or the run ends (stop
\* signal, read failure).
C23_ClickingNeverStalls ==
    /\ Pressed ~> ~Pressed
    /\ (Firing /\ ~Pressed) ~> (Pressed \/ ~Firing \/ pc = "done")

\* A burst pause is pending while firing goes on
C23_Witness ==
    /\ pc = "timers"
    /\ Firing
    /\ ~Pressed
    /\ burst_pause_start # None

----------------------------------------------------------------------------
\* C24: validate() returns Ok exactly when the device path is not empty,
\* click_delay_min_ms <= click_delay_max_ms, travel_time_min_ms <=
\* travel_time_max_ms and click_delay_min_ms >= 10 (equal bounds pass);
\* otherwise it returns the error of the first check that fails, in the order
\* device, click bounds, travel bounds, floor.
C24_ValidateContract ==
    h_call = "validate" =>
        LET cfg == h_args[1]
            device_ok == cfg.device_path # ""
            click_ok == cfg.click_delay_min_ms <= cfg.click_delay_max_ms
            travel_ok == cfg.travel_time_min_ms <= cfg.travel_time_max_ms
            floor_ok == cfg.click_delay_min_ms >= 10
        IN  /\ h_ret = "Ok" <=> device_ok /\ click_ok /\ travel_ok /\ floor_ok
            /\ ~device_ok => h_ret = "No device selected"
            /\ device_ok /\ ~click_ok =>
                   h_ret = "Min delay cannot be greater than max delay"
            /\ device_ok /\ click_ok /\ ~travel_ok =>
                   h_ret = "Min travel time cannot be greater than max travel time"
            /\ device_ok /\ click_ok /\ travel_ok /\ ~floor_ok =>
                   h_ret = "Min delay must be at least 10ms"

\* validate() on a configuration that fails the click bounds and the floor
C24_Witness ==
    /\ h_call = "validate"
    /\ h_args[1].device_path # ""
    /\ h_args[1].click_delay_min_ms > h_args[1].click_delay_max_ms
    /\ h_args[1].click_delay_min_ms < 10
    /\ h_ret = "Min delay cannot be greater than max delay"

----------------------------------------------------------------------------
\* The worker thread of a run exists and has not returned
RunOn == pc \in {"open", "grab", "clone", "top"}

\* The bounds the worker relies on
ValidBounds(cfg) ==
    /\ cfg.click_delay_min_ms <= cfg.click_delay_max_ms
    /\ cfg.travel_time_min_ms <= cfg.travel_time_max_ms
    /\ cfg.click_delay_min_ms >= 10

\* C25: when the owner's configuration fails a check at start (no device, or
\* bounds that are not valid), start_proxy spawns no worker, leaves running
\* false and the stop flag as it is, and records the validation error; and
\* the configuration of every worker that exists has click_delay_min_ms <=
\* click_delay_max_ms, travel_time_min_ms <= travel_time_max_ms and
\* click_delay_min_ms >= 10.
C25_StartOnlyIfValid ==
    [][ /\ StartProxy /\ (app_config.device_path = "" \/ ~ValidBounds(app_config)) =>
              /\ pc' = "idle"
              /\ ~proxy_handle'
              /\ ~running'
              /\ stop' = stop
              /\ error_message' # "none"
              /\ error_message' = validate(app_config)
        /\ pc' # "idle" =>
              config'.device_path # "" /\ ValidBounds(config') ]_vars

\* A start was refused for the travel bounds, after a run had set the stop
\* flag
C25_Witness ==
    /\ error_message = "Min travel time cannot be greater than max travel time"
    /\ ~running
    /\ pc = "idle"
    /\ stop

\* C26: while a run is on, the worker's snapshot does not change and the
\* owner's configuration stays equal to it, whatever the owner and the
\* recording thread do.
C26_ConfigFrozenDuringRun ==
    [][ /\ RunOn /\ RunOn' => config' = config
        /\ RunOn' => app_config' = config' ]_vars

\* C27: record_button_press returns the code of the first KEY event with
\* value 1 of the first batch that has one; it returns None when the loop
\* head finds its cancel flag set or the timeout elapsed; it goes on when the
\* loop head finds neither, whatever the proxy's stop flag is, and no store to
\* the stop flag changes anything of it; it has returned before timeout +
\* one poll period have elapsed, and it always returns.
C27_RecordingContract ==
    /\ [][ /\ rec_pc = "scan" /\ rec_pc' # "scan" =>
                LET presses == { i \in 1..Len(rec_batch) :
                                   rec_batch[i].type = "KEY" /\ rec_batch[i].value = 1 }
                IN  IF presses = {}
                    THEN rec_pc' = "sleep" /\ rec_result' = None
                    ELSE /\ rec_pc' = "done"
                         /\ \E i \in presses :
                               /\ \A j \in presses : i <= j
                               /\ rec_result' = rec_batch[i].code
           /\ rec_pc = "head" /\ rec_pc' # "head" =>
                IF recording_cancel \/ rec_elapsed >= RecordTimeout
                THEN rec_pc' = "done" /\ rec_result' = None
                ELSE rec_pc' = "fetch"
           /\ stop' # stop =>
                UNCHANGED <<rec_pc, rec_elapsed, rec_batch, rec_result>>
           /\ rec_elapsed' < RecordTimeout + RecordPoll ]_vars
    /\ (rec_pc = "open") ~> (rec_pc = "done")

\* The recording thread is at its loop head, timeout not elapsed and not
\* cancelled, while the proxy's stop flag is set
C27_Witness ==
    /\ rec_pc = "head"
    /\ stop
    /\ ~recording_cancel
    /\ rec_elapsed > 0
    /\ rec_elapsed < RecordTimeout

\* C28: every batch handed to virtual_dev.emit, a passed-through event as well
\* as a synthetic press or release, ends with a SYN_REPORT event.
C28_EveryBatchEndsWithSync ==
    \A i \in 1..Len(emitted) : Last(emitted[i]) = SynEv

\* C29: a tick that reaches the click logic hands a synthetic press to the
\* virtual device iff, after its release handling, firing is true, no click
\* is in flight, the time since last_click_complete is at least
\* next_interval and the burst tracker is not in pause; a tick that finds
\* firing true, no click in flight, no burst pause pending and the interval
\* elapsed emits the press, and no other step emits one.
C29_PressIffReady ==
    [][ /\ (TimerStep /\ ~InBurstPause(Locals)) =>
              LET pause_ended == config.burst_mode /\ burst_pause_start # None
                  released == InFlight /\ button_down_since >= current_travel
                  elapsed == IF released \/ pause_ended THEN Now
                             ELSE last_click_complete
              IN  PressEmitted <=>
                      /\ Firing
                      /\ (~InFlight \/ released)
                      /\ elapsed >= next_interval'
                      /\ ~should_pause(burst_tracker')
        /\ (TimerStep /\ Firing /\ ~InFlight /\ burst_pause_start = None
              /\ last_click_complete >= next_interval) => PressEmitted
        /\ PressEmitted => TimerStep /\ ~InBurstPause(Locals) ]_vars

\* The first press of a firing came in a tick that found the first interval
\* elapsed, after ticks that had found it not elapsed
C29_Witness ==
    /\ pc = "top"
    /\ synth_log = <<1>>
    /\ emitted = << <<KeyEv(BTN_LEFT, 1), SynEv>> >>
    /\ InFlight
    /\ Firing
    /\ next_interval > ClickDelayFloor
    /\ last_click_complete >= next_interval

\* C30: a tick hands the synthetic release of the click in flight to the
\* virtual device iff the time since button_down_since is at least
\* current_travel; a release written by any other step is one forced by a
\* trigger release or by the exit of the loop; current_travel stays the value
\* sampled at the press for as long as the click is in flight.
C30_ReleaseAtTravelTime ==
    [][ /\ TimerStep =>
              (ReleaseEmitted <=> (InFlight /\ button_down_since >= current_travel))
        /\ (~TimerStep /\ ReleaseEmitted) =>
              /\ InFlight
              /\ (Firing /\ ~rapid_fire_active(LocalsAfter)) \/ pc' = "done"
        /\ (InFlight /\ InFlight' /\ ~ReleaseEmitted) =>
              /\ current_travel' = current_travel
              /\ button_down_since' >= button_down_since ]_vars

\* A tick released a click that had been pressed for the larger travel time,
\* while the trigger stayed held
C30_Witness ==
    /\ pc = "top"
    /\ Firing
    /\ ~InFlight
    /\ emitted = << <<KeyEv(BTN_LEFT, 0), SynEv>> >>
    /\ current_travel = config.travel_time_max_ms
    /\ current_travel > config.travel_time_min_ms
    /\ synth_log = <<1, 0>>

\* The tick releases the click in flight by its travel timer
TimerRelease == TimerStep /\ InFlight /\ button_down_since >= current_travel

\* C31: a tick that releases a click by its travel timer advances the fatigue
\* count by one (wrapping as u64 does) when fatigue is simulated and the burst
\* counter by one when burst mode is on, and leaves the counter of a feature
\* that is off; a burst pause starts only in such a tick; every other step
\* leaves each counter or sets it to 0, and a forced release (trigger release,
\* exit of the loop) starts no burst pause.
C31_CountersFollowTimerReleases ==
    [][ /\ TimerRelease =>
              /\ fatigue_tracker'.click_count =
                     IF config.simulate_fatigue
                     THEN (fatigue_tracker.click_count + 1) % CountWrap
                     ELSE fatigue_tracker.click_count
              /\ burst_tracker'.clicks_in_burst =
                     IF config.burst_mode
                     THEN burst_tracker.clicks_in_burst + 1
                     ELSE burst_tracker.clicks_in_burst
        /\ ~TimerRelease =>
              /\ fatigue_tracker'.click_count \in {fatigue_tracker.click_count, 0}
              /\ burst_tracker'.clicks_in_burst \in {burst_tracker.clicks_in_burst, 0}
              /\ burst_pause_start = None => burst_pause_start' = None
              /\ ~burst_tracker.in_pause => ~burst_tracker'.in_pause
        /\ (~TimerStep /\ ReleaseEmitted) =>
              /\ burst_pause_start' = None \/ pc' = "done"
              /\ pc' = "done" =>
                    /\ fatigue_tracker' = fatigue_tracker
                    /\ burst_tracker' = burst_tracker
                    /\ burst_pause_start' = burst_pause_start ]_vars

\* A tick released a click by its travel timer with both features on: each
\* counter went from 0 to 1
C31_Witness ==
    /\ pc = "top"
    /\ config.simulate_fatigue /\ config.burst_mode
    /\ emitted = << <<KeyEv(BTN_LEFT, 0), SynEv>> >>
    /\ synth_log = <<1, 0>>
    /\ fatigue_tracker.click_count = 1
    /\ burst_tracker.clicks_in_burst = 1
    /\ ~burst_tracker.in_pause

\* The tick finds a burst pause pending and elapsed
PauseEnds ==
    /\ TimerStep
    /\ config.burst_mode
    /\ burst_pause_start # None
    /\ burst_pause_start >= current_burst_pause

\* A burst pause is pending and has not elapsed
PausePending ==
    /\ config.burst_mode
    /\ burst_pause_start # None
    /\ burst_pause_start < current_burst_pause

\* C32: the tick that finds a pending burst pause elapsed clears the burst
\* counter, the pause flag and the pending pause and sets last_click_complete
\* to now; from then on last_click_complete only ages until the next timer
\* release, and a press is emitted only once it is at least next_interval, so
\* the first press after a pause comes no earlier than next_interval after
\* the pause ended.  A tick that finds the pause pending writes nothing and
\* changes no tracker, and passes to the next fetch_events; an event that is
\* no trigger key is forwarded while the pause is pending.
C32_PauseEndRestartsInterval ==
    [][ /\ PauseEnds =>
              /\ burst_tracker'.clicks_in_burst = 0
              /\ ~burst_tracker'.in_pause
              /\ burst_pause_start' = None
              /\ last_click_complete' <= MaxSleep
              /\ PressEmitted => next_interval = 0
        /\ ~(PauseEnds \/ TimerRelease) =>
              /\ last_click_complete' >= last_click_complete
              /\ PressEmitted => last_click_complete >= next_interval
        /\ (TimerStep /\ PausePending) =>
              /\ emitted' = <<>>
              /\ pc' = "top"
              /\ UNCHANGED <<burst_tracker, fatigue_tracker, current_burst_pause,
                             next_interval, current_travel>>
              /\ ~InFlight /\ ~InFlight'
              /\ burst_pause_start' >= burst_pause_start
        /\ (EventStep /\ PausePending
              /\ ~(event'.type = "KEY" /\ event'.code \in TriggerCodes)) =>
              /\ emitted' = << <<event'>> >>
              /\ PausePending' ]_vars

\* A tick has ended the pause of a completed burst: the tracker is cleared
\* and the interval counts from that tick
C32_Witness ==
    /\ pc = "top"
    /\ config.burst_mode
    /\ burst_done_since # None
    /\ burst_done_since >= current_burst_pause
    /\ current_burst_pause > 0
    /\ burst_pause_start = None
    /\ burst_tracker = BurstTracker_new
    /\ last_click_complete <= MaxSleep
    /\ emitted = <<>>
    /\ Firing

\* C33: for min <= max the travel sampler, uniform or gaussian, returns a
\* value in [min, max] when jitter is off; when jitter is on it returns a
\* value between a base in [min, max] and that base plus half of it, rounded
\* down.
C33_TravelInRange ==
    h_call \in {"random_travel_time", "gaussian_travel_time"} =>
        LET min_ms == h_args[1]
            max_ms == h_args[2]
            jitter == h_args[3]
        IN  min_ms <= max_ms =>
                IF jitter
                THEN \E base \in min_ms..max_ms :
                        base <= h_ret /\ h_ret <= base + base \div 2
                ELSE h_ret \in min_ms..max_ms

\* C34: apply() returns a duration that is never below the one it is given
\* and never above it times 1 + max slowdown; and the next_interval of a run
\* lies between click_delay_min_ms and click_delay_max_ms, times 1 + max
\* slowdown and rounded down when fatigue is simulated.
C34_FatigueWithinBounds ==
    /\ h_call = "apply" =>
          LET max_percent == h_args[2]
              ms == h_args[3]
          IN  /\ h_ret >= ms
              /\ h_ret <= (ms * (100 + max_percent)) \div 100
    /\ pc \in {"top", "events", "body", "timers"} =>
          /\ next_interval >= config.click_delay_min_ms
          /\ next_interval <=
                 IF config.simulate_fatigue
                 THEN (config.click_delay_max_ms * (100 + config.fatigue_max_percent))
                          \div 100
                 ELSE config.click_delay_max_ms

\* C35: in dual-trigger mode, whenever the last event processed for the fire
\* key BTN_LEFT is a release (or there is none) and no synthetic click is in
\* flight, the last BTN_LEFT event handed to the virtual device, forwarded or
\* synthetic, is a release, or none was handed to it.
C35_LeftNeverStuck ==
    (/\ config.smart_ads_trigger
     /\ key_state[BTN_LEFT] \in {None, 0}
     /\ ~InFlight) =>
        left_written \in {None, 0}

\* C36: a synthetic press is handed to the virtual device only when at least
\* click_delay_min_ms have passed since the last synthetic release was, the
\* one of the travel timer as well as the one forced by a trigger release.
C36_PressAfterMinInterval ==
    [][ PressEmitted =>
            LET gap == IF ReleaseEmitted THEN Now ELSE released_since
            IN  gap = None \/ gap >= config.click_delay_min_ms ]_vars

\* C37: whenever the owner is between two handlers and its running flag is
\* true, the worker has not returned.
C37_RunningMeansAlive ==
    (owner_pc = "ui" /\ running) => pc # "done"

\* a step of the owner that spawns a worker (spawn_proxy in start_proxy)
WorkerSpawned == pc' = "open" /\ pc # "open"

\* the owner is inside handle.join(), from stop_proxy or from on_exit
InJoin == owner_pc \in {"join", "exit_join"}

\* C38: at most one proxy worker exists: over start, stop, toggle and exit a
\* worker is spawned only when no worker exists, the handle of the previous
\* one having been taken and joined, and every worker that exists is the one
\* whose handle the owner holds.
C38_SpawnOnlyAfterJoin ==
    [][ /\ WorkerSpawned => (pc = "idle" /\ ~proxy_handle /\ proxy_handle')
        /\ pc' # "idle" => proxy_handle'
        /\ (proxy_handle /\ ~proxy_handle') => (InJoin /\ pc = "done") ]_vars

\* a second worker has been spawned after the first was stopped and joined
C38_Witness == spawned = 2 /\ pc = "top" /\ running /\ owner_pc = "ui"

\* C39: the owner clears the stop flag in the step that spawns a worker and
\* sets it only in stop_proxy, which then waits in join: a worker that reads
\* the flag set has an owner waiting in join for it, and the flag is cleared
\* only when no worker exists.
C39_StopFlagProtocol ==
    [][ /\ WorkerSpawned => ~stop'
        /\ (stop' /\ ~stop) => (running /\ owner_pc = "ui" /\ (proxy_handle => InJoin'))
        /\ (stop /\ ~stop') => (pc = "idle" /\ WorkerSpawned)
        /\ (stop' /\ pc' \notin {"idle", "done"}) => InJoin' ]_vars

\* a worker of a second run is at its loop test with the flag clear, and
\* the flag was set for the first run
C39_Witness == spawned = 2 /\ pc = "top" /\ ~stop /\ running /\ proxy_handle

\* a worker told to stop is still running while the owner waits in join
C39_StopPending == stop /\ pc = "top" /\ owner_pc = "join"

====
